---------------------------- MODULE Spec2Model ----------------------------
(***************************************************************************)
(* A model of the shout server (appengine-python-flask): the status log    *)
(* (ShoutStatusLog), the long-poll loop (poll_shout_status), the worker    *)
(* callback (post_shout_status) and the rotating token purse (Rotoken).    *)
(*                                                                         *)
(* Time is counted in milliseconds: sleep_seconds = 0.1 is 100, the 45     *)
(* second budget is 45000.  A random id (new_random_id) is modelled as a   *)
(* fresh natural number: the k-th call returns k.  The datastore is taken  *)
(* to answer a query with every entity put before it.                      *)
(*                                                                         *)
(* The poll loop reads only the status log and the transactions of the     *)
(* purse touch only the RotokenRecord, so the model is checked as two      *)
(* specifications: SpecToken (the purse, and the callbacks it authorizes,  *)
(* from an empty datastore) and SpecPoll (the log and the poll loop, once  *)
(* /init has created the record).                                          *)
(***************************************************************************)
EXTENDS Integers, Sequences, FiniteSets, TLC

VARIABLES
    log,        \* the ShoutStatusLog entities, in insertion order
    clock,      \* the wall clock that auto_now_add stamps entities with
    record,     \* the RotokenRecord of the purse, or None before /init
    txn,        \* per admin request: the Rotoken transaction it is running
    issued,     \* the tokens committed to the record, oldest first
    nextId,     \* how many ids new_random_id has handed out
    poll,       \* the browser request (shout / shout_status) being served
    published,  \* the messages published to the Pub/Sub topic
    callback,   \* the HTTP status of the last post_shout_status request
    purge,      \* the /purge request: the keys it still has to delete
    http        \* the requests served: who appended which entity, and the
                \* terminal responses the polls have returned

vars ==
    <<log, clock, record, txn, issued, nextId, poll, published, callback, purge,
      http>>

-----------------------------------------------------------------------------
(* Bounds of the model. *)

MaxEvents == 2      \* entities the log may hold
MaxIds == 4         \* calls of new_random_id

(* Values of the program. *)

None == "None"          \* Python's None (JSON null)
Absent == "absent"      \* a key that a dict does not hold

STATUSES == <<"a-new", "b-shouting", "c-error", "d-fatal", "e-success">>

StatusNames == {"new", "shouting", "error", "fatal", "success"}

STATUS_MAP(name) ==
    CASE name = "new" -> "a-new"
      [] name = "shouting" -> "b-shouting"
      [] name = "error" -> "c-error"
      [] name = "fatal" -> "d-fatal"
      [] name = "success" -> "e-success"

\* ShoutStatusLog.status_name: status.split('-')[1]
status_name(status) ==
    CASE status = "a-new" -> "new"
      [] status = "b-shouting" -> "shouting"
      [] status = "c-error" -> "error"
      [] status = "d-fatal" -> "fatal"
      [] status = "e-success" -> "success"

\* The datastore orders the status strings lexicographically; the prefix
\* letters a..e make that the order of STATUSES.
Rank(status) == CHOOSE i \in 1..Len(STATUSES) : STATUSES[i] = status

combine_ids(browser_id, shout_id) == browser_id \o "-" \o shout_id

BudgetMs == 45000
FirstSleepMs == 100
MaxSleepMs == 5000
max_tokens == 3

Min(a, b) == IF a < b THEN a ELSE b


-----------------------------------------------------------------------------
(* The status log: ShoutStatusLog entities and the query of the poll. *)

\* A new ShoutStatusLog(): error and result default to None.
ShoutStatusLog(combined_shout_id, status, error, result) ==
    [combined_shout_id |-> combined_shout_id, status |-> status,
     timestamp |-> None, error |-> error, result |-> result]

\* entity.put(): auto_now_add stamps the entity with the clock, which has
\* moved on by the next insertion.
Put(entity) ==
    /\ log' = Append(log, [entity EXCEPT !.timestamp = clock])
    /\ clock' = clock + 1

\* The requests served so far.
NoHttp == [appended |-> {}, answered |-> {}]

\* The request for a pair of ids puts an entity: it gets the clock's stamp.
Appended(browser_id, shout_id) ==
    [http EXCEPT !.appended =
        @ \cup {[browserId |-> browser_id, shoutId |-> shout_id,
                 timestamp |-> clock]}]

\* A poll that returns a terminal response (HTTP 200) has answered its job.
Answered(p) ==
    IF p.pc = "done" /\ p.code = 200
    THEN [http EXCEPT !.answered =
             @ \cup {[browserId |-> p.browser_id, shoutId |-> p.shout_id,
                      status |-> p.response.status,
                      result |-> p.response.result,
                      error |-> p.response.error]}]
    ELSE http

\* .filter(ShoutStatusLog.combined_shout_id == key)
Matching(key) == {i \in 1..Len(log) : log[i].combined_shout_id = key}

\* .order(-ShoutStatusLog.status), read from the wrong end of the index
FirstByStatusAscending(key) ==
    {i \in Matching(key) :
        \A j \in Matching(key) : Rank(log[i].status) <= Rank(log[j].status)}

\* .order(-ShoutStatusLog.status): the entities that may come first.  The
\* query names no second sort order, so among entities of the same status
\* the datastore decides (by entity key, an auto-allocated id).
FirstByStatus(key) ==
    {i \in Matching(key) :
        \A j \in Matching(key) : Rank(log[i].status) >= Rank(log[j].status)}

\* q.fetch(1): the lists the query may return.
Fetch1(key) ==
    IF Matching(key) = {} THEN {<<>>}
    ELSE {<<log[i]>> : i \in FirstByStatus(key)}

-----------------------------------------------------------------------------
(* poll_shout_status.  An optional value (the nextLink member, the list  *)
(* fetch(1) returned) is a sequence of length 0 or 1.                     *)

NoResponse ==
    [shoutId |-> Absent, status |-> Absent, result |-> Absent,
     error |-> Absent, nextLink |-> <<>>]

Idle ==
    [pc |-> "idle", handler |-> None, browser_id |-> None, shout_id |-> None,
     last_status |-> None, response |-> NoResponse, code |-> 0,
     elapsed |-> 0, sleep_seconds |-> 0, entities |-> <<>>]

\* Lines 226-229: the locals of a poll that enters its loop.
StartPoll(handler, browser_id, shout_id, last_status) ==
    [pc |-> "polling", handler |-> handler, browser_id |-> browser_id,
     shout_id |-> shout_id, last_status |-> last_status,
     response |-> [NoResponse EXCEPT !.shoutId = shout_id,
                                     !.status = last_status],
     code |-> 0, elapsed |-> 0, sleep_seconds |-> FirstSleepMs,
     entities |-> <<>>]

\* A loop that never notices a change
ChangedIgnored(last_status, status) == FALSE

\* if last_status != status
Changed(last_status, status) == last_status # status

\* A budget of 5 seconds instead of 45
ShortBudget(elapsed) == elapsed >= MaxSleepMs

\* if time.time() - start_timestamp >= 45
BudgetExhausted(elapsed) == elapsed >= BudgetMs

\* A backoff without the ceiling
NextSleepUncapped(sleep_seconds) == sleep_seconds * 2

\* sleep_seconds = min(5, sleep_seconds * 2)
NextSleep(sleep_seconds) == Min(MaxSleepMs, sleep_seconds * 2)

\* werkzeug.urls.url_encode: the query string of a dict, as the sequence of
\* its key=value pairs (the text between the & signs), keys in FormKeys order.
FormKeys == <<"browserId", "shoutId", "status">>

url_encode(obj) ==
    LET IsKey(k) == k \in DOMAIN obj
        keys == SelectSeq(FormKeys, IsKey)
    IN  [i \in 1..Len(keys) |-> <<keys[i], obj[keys[i]]>>]

\* werkzeug.urls.url_decode: the MultiDict of a query string; token[key]
\* is the value of the first pair with that key.
url_decode(query) ==
    [key \in {query[i][1] : i \in 1..Len(query)} |->
        query[CHOOSE i \in 1..Len(query) :
                  /\ query[i][1] = key
                  /\ \A j \in 1..(i - 1) : query[j][1] # key][2]]

\* A continuation that carries the status the poll was invoked with
ReturnNextLinkLastStatus(p) ==
    [p EXCEPT !.pc = "done", !.code = 202,
              !.response.nextLink =
                  <<[target |-> "shout_status", method |-> "POST",
                     token |-> url_encode(
                                  [browserId |-> p.browser_id,
                                   shoutId |-> p.shout_id,
                                   status |-> p.last_status])]>>]

\* A continuation sent without the 202
ReturnNextLinkOk(p) ==
    [p EXCEPT !.pc = "done", !.code = 200,
              !.response.nextLink =
                  <<[target |-> "shout_status", method |-> "POST",
                     token |-> url_encode(
                                  [browserId |-> p.browser_id,
                                   shoutId |-> p.shout_id,
                                   status |-> p.response.status])]>>]

\* A terminal return that falls through to the nextLink
ReturnResponseWithLink(p) ==
    [p EXCEPT !.pc = "done", !.code = 200,
              !.response.nextLink =
                  <<[target |-> "shout_status", method |-> "POST",
                     token |-> url_encode(
                                  [browserId |-> p.browser_id,
                                   shoutId |-> p.shout_id,
                                   status |-> p.response.status])]>>]

\* return json.dumps(response): HTTP 200
ReturnResponse(p) == [p EXCEPT !.pc = "done", !.code = 200]

\* Lines 258-266: the nextLink and HTTP 202
ReturnNextLink(p) ==
    [p EXCEPT !.pc = "done", !.code = 202,
              !.response.nextLink =
                  <<[target |-> "shout_status", method |-> "POST",
                     token |-> url_encode(
                                  [browserId |-> p.browser_id,
                                   shoutId |-> p.shout_id,
                                   status |-> p.response.status])]>>]

\* Lines 252-256: give up when the budget is spent, else sleep and retry.
RetryOrTimeout(p) ==
    IF BudgetExhausted(p.elapsed)
    THEN ReturnNextLink(p)
    ELSE [p EXCEPT !.elapsed = p.elapsed + p.sleep_seconds,
                   !.sleep_seconds = NextSleep(p.sleep_seconds)]

\* An iteration that tests for a change before it tests for success and
\* fatal, and so keeps waiting on a terminal status equal to last_status
PollStepUnchangedFirst(p, entities) ==
    IF entities # <<>>
    THEN LET entity == entities[1]
             status == status_name(entity.status)
             q == [p EXCEPT !.entities = entities,
                            !.response.status = status]
         IN  IF ~Changed(p.last_status, status)
             THEN RetryOrTimeout(q)
             ELSE IF status = "success"
             THEN ReturnResponse([q EXCEPT !.response.result = entity.result])
             ELSE IF status = "fatal"
             THEN ReturnResponse([q EXCEPT !.response.error = entity.error])
             ELSE ReturnNextLink([q EXCEPT !.response.error = entity.error])
    ELSE RetryOrTimeout([p EXCEPT !.entities = entities])

\* An iteration that copies entity.error into the response on every read
PollStepErrorAlways(p, entities) ==
    IF entities # <<>>
    THEN LET entity == entities[1]
             status == status_name(entity.status)
             q == [p EXCEPT !.entities = entities,
                            !.response.status = status,
                            !.response.error = entity.error]
         IN  IF status = "success"
             THEN ReturnResponse([q EXCEPT !.response.result = entity.result])
             ELSE IF status = "fatal"
             THEN ReturnResponse(q)
             ELSE IF Changed(p.last_status, status)
             THEN ReturnNextLink(q)
             ELSE RetryOrTimeout(q)
    ELSE RetryOrTimeout([p EXCEPT !.entities = entities])

\* Lines 236-256: one iteration of the loop, given what fetch(1) returned.
PollStep(p, entities) ==
    IF entities # <<>>
    THEN LET entity == entities[1]
             status == status_name(entity.status)
             q == [p EXCEPT !.entities = entities,
                            !.response.status = status]
         IN  IF status = "success"
             THEN ReturnResponse([q EXCEPT !.response.result = entity.result])
             ELSE IF status = "fatal"
             THEN ReturnResponse([q EXCEPT !.response.error = entity.error])
             ELSE IF Changed(p.last_status, status)
             THEN ReturnNextLink([q EXCEPT !.response.error = entity.error])
             ELSE RetryOrTimeout(q)
    ELSE RetryOrTimeout([p EXCEPT !.entities = entities])

\* One pass through the while loop of poll_shout_status.  The store is read
\* once per pass; the sleep that follows is where other requests interleave.
PollIter ==
    /\ poll.pc = "polling"
    /\ \E entities \in Fetch1(combine_ids(poll.browser_id, poll.shout_id)) :
           /\ poll' = PollStep(poll, entities)
           /\ http' = Answered(PollStep(poll, entities))
    /\ UNCHANGED <<log, clock, record, txn, issued, nextId, published, callback,
                   purge>>

\* entities = q.fetch(1) raises (the datastore is unreachable).  No try
\* encloses the call, so the exception leaves poll_shout_status and the
\* request ends with HTTP 500.
PollFetchFails ==
    /\ poll.pc = "polling"
    /\ poll' = [poll EXCEPT !.pc = "done", !.code = 500,
                            !.response = NoResponse]
    /\ UNCHANGED <<log, clock, record, txn, issued, nextId, published, callback,
                   purge, http>>

\* /shout_status: resume polling from a nextLink token.
ShoutStatus(form_token) ==
    /\ poll.pc # "polling"
    /\ LET token == url_decode(form_token)
       IN  poll' = StartPoll("shout_status", token["browserId"],
                             token["shoutId"], token["status"])
    /\ UNCHANGED <<log, clock, record, txn, issued, nextId, published, callback,
                   purge, http>>

-----------------------------------------------------------------------------
(* Rotoken: the purse of rotating tokens.  The RotokenRecord is <<>> while *)
(* the datastore holds none, else <<[tokens, version]>>; version counts    *)
(* the committed writes and is what a transaction's conflict check reads.  *)

Procs == {1, 2}         \* the admin requests (/init, /rotate_token) in flight

Forged == -1            \* a token new_random_id never returned

NoTxn ==
    [pc |-> "idle", op |-> None, token |-> Forged, snapshot |-> <<>>,
     errors |-> FALSE, outcome |-> None, code |-> 0]

\* rotate_token without the del: the list is never cut
RotateNoTruncate(tokens, token) == <<token>> \o tokens

\* record.tokens.insert(0, token); del record.tokens[self._max_tokens:]
Rotate(tokens, token) ==
    SubSeq(<<token>> \o tokens, 1, Min(max_tokens, Len(tokens) + 1))

\* init without the "if not record": the record is always replaced
InitAlways(rec, first_token) == <<first_token>>

\* Rotoken.init: record = self._key.get(); if not record: record =
\* RotokenRecord(tokens=[first_token]); the tokens that record.put() writes
InitTokens(rec, first_token) ==
    IF rec = <<>> THEN <<first_token>> ELSE rec[1].tokens

\* Rotoken.get_tokens on a record that exists
get_tokens == record[1].tokens

\* Writes that are not transactional: no commit ever sees a conflict
NeverConflict(p) == FALSE

\* @ndb.transactional: the commit fails when the record was written after
\* the transaction read it
Conflict(p) == txn[p].snapshot # record

\* What the body of the transaction puts, from the record it read.
TxnTokens(t) ==
    IF t.op = "init" THEN InitTokens(t.snapshot, t.token)
    ELSE Rotate(t.snapshot[1].tokens, t.token)

\* /init (main.py) calls purse.init(new_random_id()) after the two Pub/Sub
\* calls; an exception of any of the three is collected in errors.
InitBegin(p) ==
    /\ txn[p].pc # "commit"
    /\ nextId < MaxIds
    /\ nextId' = nextId + 1
    /\ \E errors \in BOOLEAN :
           txn' = [txn EXCEPT ![p] =
                      [pc |-> "commit", op |-> "init", token |-> nextId,
                       snapshot |-> record, errors |-> errors,
                       outcome |-> None, code |-> 0]]
    /\ UNCHANGED <<log, clock, record, issued, poll, published, callback,
                   purge, http>>

\* /rotate_token (main.py) calls purse.rotate_token(new_random_id()).  With
\* no record, record.tokens raises AttributeError and the request fails.
RotateBegin(p) ==
    /\ txn[p].pc # "commit"
    /\ nextId < MaxIds
    /\ nextId' = nextId + 1
    /\ txn' = [txn EXCEPT ![p] =
                  IF record = <<>>
                  THEN [pc |-> "done", op |-> "rotate", token |-> nextId,
                        snapshot |-> record, errors |-> TRUE,
                        outcome |-> "AttributeError", code |-> 500]
                  ELSE [pc |-> "commit", op |-> "rotate", token |-> nextId,
                        snapshot |-> record, errors |-> FALSE,
                        outcome |-> None, code |-> 0]]
    /\ UNCHANGED <<log, clock, record, issued, poll, published, callback,
                   purge, http>>

\* The transaction commits: record.put() takes effect.
TxnCommit(p) ==
    /\ txn[p].pc = "commit"
    /\ ~Conflict(p)
    /\ record' = <<[tokens |-> TxnTokens(txn[p]),
                    version |-> IF record = <<>> THEN 1
                                ELSE record[1].version + 1]>>
    /\ issued' = IF txn[p].op = "init" /\ record # <<>>
                 THEN issued ELSE Append(issued, txn[p].token)
    /\ txn' = [txn EXCEPT ![p].pc = "done", ![p].outcome = "ok",
                          ![p].code = IF txn[p].errors THEN 500 ELSE 200]
    /\ UNCHANGED <<log, clock, nextId, poll, published, callback,
                   purge, http>>

\* The commit found a conflict and ndb runs the function again.
TxnRetry(p) ==
    /\ txn[p].pc = "commit"
    /\ Conflict(p)
    /\ txn' = [txn EXCEPT ![p].snapshot = record]
    /\ UNCHANGED <<log, clock, record, issued, nextId, poll, published, callback,
                   purge, http>>

\* The commit found a conflict and ndb is out of retries:
\* TransactionFailedError.
TxnFail(p) ==
    /\ txn[p].pc = "commit"
    /\ Conflict(p)
    /\ txn' = [txn EXCEPT ![p].pc = "done",
                          ![p].outcome = "TransactionFailedError",
                          ![p].code = 500]
    /\ UNCHANGED <<log, clock, record, issued, nextId, poll, published, callback,
                   purge, http>>

-----------------------------------------------------------------------------
(* post_shout_status and shout *)

\* A check that knows the newest token only
AuthorizedNewestOnly(token, tokens) == tokens # <<>> /\ token = tokens[1]

\* request.form.get('token') in purse.get_tokens()
Authorized(token, tokens) == \E i \in 1..Len(tokens) : tokens[i] = token

\* Lines 277-286: the entity a callback writes.
CallbackEntity(browser_id, shout_id, status, result) ==
    IF status \in {"error", "fatal"}
    THEN ShoutStatusLog(combine_ids(browser_id, shout_id),
                        STATUS_MAP(status), result, None)
    ELSE ShoutStatusLog(combine_ids(browser_id, shout_id),
                        STATUS_MAP(status), None, result)

\* /post_shout_status, called by a worker.  Without a record get_tokens
\* raises AttributeError (HTTP 500); a token not in the list aborts with 403.
PostShoutStatus(token, browser_id, shout_id, status, result) ==
    IF record = <<>>
    THEN /\ callback' = 500
         /\ UNCHANGED <<log, clock, record, txn, issued, nextId, poll, published,
                   purge, http>>
    ELSE IF ~Authorized(token, get_tokens)
    THEN /\ callback' = 403
         /\ UNCHANGED <<log, clock, record, txn, issued, nextId, poll, published,
                   purge, http>>
    ELSE /\ Len(log) < MaxEvents
         /\ Put(CallbackEntity(browser_id, shout_id, status, result))
         /\ callback' = 200
         /\ http' = Appended(browser_id, shout_id)
         /\ UNCHANGED <<record, txn, issued, nextId, poll, published, purge>>

\* /shout up to the call of poll_shout_status.  purse.get_tokens()[0] is
\* evaluated before ps.publish is called; either may raise, and then the
\* request ends with HTTP 500 while the put_async of the new entity may or
\* may not have reached the datastore.
Shout(browser_id, shout_id) ==
    /\ poll.pc # "polling"
    /\ Len(log) < MaxEvents
    /\ LET entity == ShoutStatusLog(combine_ids(browser_id, shout_id),
                                    STATUS_MAP("new"), None, None)
           failed == [Idle EXCEPT !.pc = "done", !.handler = "shout",
                                  !.browser_id = browser_id,
                                  !.shout_id = shout_id, !.code = 500]
       IN  \E raised \in BOOLEAN, written \in BOOLEAN :
               IF record = <<>> \/ raised
               THEN /\ poll' = failed
                    /\ IF written
                       THEN /\ Put(entity)
                            /\ http' = Appended(browser_id, shout_id)
                       ELSE UNCHANGED <<log, clock, http>>
                    /\ UNCHANGED published
               ELSE /\ written
                    /\ Put(entity)
                    /\ http' = Appended(browser_id, shout_id)
                    /\ published' = published \cup
                           {[browserId |-> browser_id, shoutId |-> shout_id,
                             postStatusToken |-> get_tokens[1]]}
                    /\ poll' = StartPoll("shout", browser_id, shout_id, "new")
    /\ UNCHANGED <<record, txn, issued, nextId, callback, purge>>

-----------------------------------------------------------------------------
(* purge.  An entity is known to the datastore by its key; the model names *)
(* it by its timestamp, which no two entities share.                       *)

OneDay == 2             \* datetime.timedelta(days=1), in ticks of the clock

NoPurge == [pc |-> "idle", start |-> 0, keys |-> {}, deleted |-> {}]

\* A threshold that forgets to subtract the day
TooOldNow(now) == now

\* too_old = datetime.datetime.utcnow() - datetime.timedelta(days=1)
TooOld(now) == now - OneDay

\* Lines 297-299: the keys of the entities with timestamp < too_old.
PurgeStart ==
    /\ purge.pc # "deleting"
    /\ purge' = [pc |-> "deleting", start |-> clock,
                 keys |-> {log[i].timestamp : i \in
                              {j \in 1..Len(log) :
                                  log[j].timestamp < TooOld(clock)}},
                 deleted |-> {}]
    /\ UNCHANGED <<log, clock, record, txn, issued, nextId, poll, published,
                   callback, http>>

\* The log without the entity of a key.
Deleted(entities, key) ==
    LET Kept(entity) == entity.timestamp # key
    IN  SelectSeq(entities, Kept)

\* Lines 300-301: key.delete() of one of the keys, in the order of the list.
PurgeDelete ==
    /\ purge.pc = "deleting"
    /\ purge.keys # purge.deleted
    /\ LET todo == purge.keys \ purge.deleted
           key == CHOOSE k \in todo : \A m \in todo : k <= m
       IN  /\ log' = Deleted(log, key)
           /\ purge' = [purge EXCEPT !.deleted = purge.deleted \cup {key}]
    /\ UNCHANGED <<clock, record, txn, issued, nextId, poll, published,
                   callback, http>>

\* return "purged."
PurgeDone ==
    /\ purge.pc = "deleting"
    /\ purge.keys = purge.deleted
    /\ purge' = [purge EXCEPT !.pc = "done"]
    /\ UNCHANGED <<log, clock, record, txn, issued, nextId, poll, published,
                   callback, http>>

\* Time passes.
Tick ==
    /\ clock' = clock + 1
    /\ UNCHANGED <<log, record, txn, issued, nextId, poll, published, callback,
                   purge, http>>

-----------------------------------------------------------------------------
(* Specifications *)

\* The state after construction: an empty datastore, no request in flight.
Init ==
    /\ log = <<>>
    /\ clock = 0
    /\ record = <<>>
    /\ txn = [p \in Procs |-> NoTxn]
    /\ issued = <<>>
    /\ nextId = 0
    /\ poll = Idle
    /\ published = {}
    /\ callback = 0
    /\ purge = NoPurge
    /\ http = NoHttp

Results == {"HELLO"}            \* request.form.get('result') of a callback

\* The purse and the callbacks it authorizes: admin requests run /init and
\* /rotate_token concurrently while workers post with any token.
TokenTokens == {Forged} \cup (0..(MaxIds - 1))
TokenStatuses == {"shouting", "success"}

NextToken ==
    \/ \E p \in Procs : InitBegin(p)
    \/ \E p \in Procs : RotateBegin(p)
    \/ \E p \in Procs : TxnCommit(p)
    \/ \E p \in Procs : TxnRetry(p)
    \/ \E p \in Procs : TxnFail(p)
    \/ \E token \in TokenTokens, status \in TokenStatuses, result \in Results :
           PostShoutStatus(token, "B", "7", status, result)

SpecToken == Init /\ [][NextToken]_vars

\* The status log and the poll loop: the state after /init has created the
\* record with its first token; browsers shout and poll while workers post.
InitPoll ==
    /\ log = <<>>
    /\ clock = 0
    /\ record = <<[tokens |-> <<0>>, version |-> 1]>>
    /\ txn = [p \in Procs |-> NoTxn]
    /\ issued = <<0>>
    /\ nextId = 1
    /\ poll = Idle
    /\ published = {}
    /\ callback = 0
    /\ purge = NoPurge
    /\ http = NoHttp

PollBrowsers == {"B"}
PollShouts == {"7", "8"}
PollTokens == {0}                \* the workers hold the token of /init

\* request.form['token'] of /shout_status: the token of a nextLink, or one
\* the client wrote itself.
PollFormTokens ==
    {url_encode([browserId |-> b, shoutId |-> s, status |-> last]) :
        b \in PollBrowsers, s \in PollShouts, last \in StatusNames}

NextPoll ==
    \/ \E b \in PollBrowsers, s \in PollShouts : Shout(b, s)
    \/ \E form_token \in PollFormTokens : ShoutStatus(form_token)
    \/ PollIter
    \/ \E token \in PollTokens, b \in PollBrowsers, s \in PollShouts,
          status \in StatusNames, result \in Results :
           PostShoutStatus(token, b, s, status, result)

SpecPoll == InitPoll /\ [][NextPoll]_vars

\* One browser and its job: the client of api_test.py submits a shout and
\* follows every nextLink it is given, while the worker that received the
\* message posts the outcome with the token of the message.
ClientResults == {"HELLO", "JEFF"}

ClientShout ==
    /\ log = <<>>
    /\ Shout("B", "7")

\* api_test.py lines 98-104: the reply has a nextLink, post its token.
Resume ==
    /\ poll.pc = "done"
    /\ poll.code \in {200, 202}
    /\ poll.response.nextLink # <<>>
    /\ ShoutStatus(poll.response.nextLink[1].token)

WorkerPost ==
    \E message \in published, status \in {"success", "fatal"},
       result \in ClientResults :
        PostShoutStatus(message.postStatusToken, message.browserId,
                        message.shoutId, status, result)

NextClient ==
    \/ ClientShout
    \/ Resume
    \/ PollIter
    \/ WorkerPost

\* The request handler runs its loop to the end, the client keeps following
\* the nextLink, and the worker does post its outcome.
SpecClient ==
    /\ InitPoll
    /\ [][NextClient]_vars
    /\ WF_vars(PollIter)
    /\ WF_vars(Resume)
    /\ WF_vars(WorkerPost)

\* The status log and the poll loop while reads of the datastore may fail.
NextOutage ==
    \/ NextPoll
    \/ PollFetchFails

SpecOutage == InitPoll /\ [][NextOutage]_vars

\* The status log over days: events are appended and the poll reads them
\* while the clock moves on, an admin makes one request (/init or
\* /rotate_token) and /purge runs.
MaxClock == 4           \* the clock stops here

PurgeStatuses == {"success"}

Appends ==
    \/ Shout("B", "7")
    \/ \E status \in PurgeStatuses, result \in Results :
           PostShoutStatus(0, "B", "7", status, result)

Reads ==
    \/ PollIter
    \/ txn[1] = NoTxn /\ InitBegin(1)
    \/ txn[1] = NoTxn /\ RotateBegin(1)
    \/ TxnCommit(1)

NextPurge ==
    \/ clock < MaxClock /\ Appends
    \/ clock < MaxClock /\ Tick
    \/ Reads
    \/ PurgeStart
    \/ PurgeDelete
    \/ PurgeDone

SpecPurge == InitPoll /\ [][NextPurge]_vars

\* Dispatch and callback across rotations: shouts publish jobs with the
\* token of the moment, admin requests rotate the token, and the worker of
\* a message calls back with the token it was given.
\* The worker of a message reports success with the message's token.
WorkerSuccess ==
    \E message \in published, result \in Results :
        PostShoutStatus(message.postStatusToken, message.browserId,
                        message.shoutId, "success", result)

NextDispatch ==
    \/ Shout("B", "7")
    \/ PollIter
    \/ \E p \in Procs : RotateBegin(p)
    \/ \E p \in Procs : TxnCommit(p)
    \/ \E p \in Procs : TxnRetry(p)
    \/ \E p \in Procs : TxnFail(p)
    \/ WorkerSuccess

SpecDispatch == InitPoll /\ [][NextDispatch]_vars

\* Jobs whose ids hold the separator of combine_ids: /shout, /shout_status
\* and /post_shout_status take browserId and shoutId from the request as
\* they come.
KeyBrowsers == {"B", "B-7"}
KeyShouts == {"8", "7-8"}

NextKeys ==
    \/ \E b \in KeyBrowsers, s \in KeyShouts : Shout(b, s)
    \/ \E b \in KeyBrowsers, s \in KeyShouts :
           ShoutStatus(url_encode([browserId |-> b, shoutId |-> s,
                                   status |-> "new"]))
    \/ PollIter
    \/ \E b \in KeyBrowsers, s \in KeyShouts, result \in Results :
           PostShoutStatus(0, b, s, "success", result)

SpecKeys == InitPoll /\ [][NextKeys]_vars

-----------------------------------------------------------------------------
(* Vocabulary of the properties *)

PollKey == combine_ids(poll.browser_id, poll.shout_id)

\* The highest-priority status name among the entities of a job.
HighestStatus(key) ==
    CHOOSE name \in StatusNames :
        /\ \E i \in Matching(key) : log[i].status = STATUS_MAP(name)
        /\ \A j \in Matching(key) : Rank(log[j].status) <= Rank(STATUS_MAP(name))

TerminalNames == {"success", "fatal"}

HasTerminal(key) ==
    \E i \in Matching(key) : status_name(log[i].status) \in TerminalNames

\* The poll has produced a response of its own (not a failure of /shout).
Responded == poll.pc = "done" /\ poll.code \in {200, 202}

HasResult == poll.response.result # Absent
HasError == poll.response.error # Absent
HasNextLink == poll.response.nextLink # <<>>

\* The error member holds a message: it is neither missing nor null, which
\* is how the client of api_test.py reads it (reply.get('error')).
HasErrorMessage == poll.response.error \notin {Absent, None}

\* A step of the poll loop that returns the response.
PollReturns == PollIter /\ poll'.pc = "done"

-----------------------------------------------------------------------------
(* C1: the entity a read of the poll selects *)

\* C1 (as claimed): every read of poll_shout_status selects, among the
\* entities of the job, the one with the maximum (status priority,
\* timestamp) pair: of several entities with the highest status, the newest.
C1_SelectsNewestOfHighest ==
    [][PollIter /\ Matching(PollKey) # {} =>
         /\ poll'.entities # <<>>
         /\ \A i \in Matching(PollKey) :
              \/ Rank(log[i].status) < Rank(poll'.entities[1].status)
              \/ /\ log[i].status = poll'.entities[1].status
                 /\ log[i].timestamp <= poll'.entities[1].timestamp]_vars

\* C1 (amended): every read of poll_shout_status selects an entity of the
\* job whose status has the maximum priority among the job's entities, in
\* the order new < shouting < error < fatal < success, whatever the
\* insertion order; which of several entities of that status is selected is
\* not decided by their timestamps.
C1_SelectsHighestStatus ==
    [][PollIter /\ Matching(PollKey) # {} =>
         /\ poll'.entities # <<>>
         /\ \E i \in Matching(PollKey) : log[i] = poll'.entities[1]
         /\ \A i \in Matching(PollKey) :
              Rank(log[i].status) <= Rank(poll'.entities[1].status)]_vars

\* A read selected an entity that was inserted before a lower-priority one.
C1_Witness ==
    /\ poll.entities # <<>>
    /\ \E i, j \in Matching(PollKey) :
         /\ i < j
         /\ log[i] = poll.entities[1]
         /\ Rank(log[j].status) < Rank(log[i].status)

-----------------------------------------------------------------------------
(* C2: a terminal entity ends the poll at its first read *)

\* C2: if a success or fatal entity exists for the job, the first read of
\* a poll returns, for every last_status and without sleeping, a terminal
\* response: HTTP 200, no nextLink, status success with the result of a
\* success entity or status fatal with the error of a fatal entity.
C2_TerminalAtFirstRead ==
    [][PollIter /\ poll.elapsed = 0 /\ HasTerminal(PollKey) =>
         /\ poll'.pc = "done"
         /\ poll'.elapsed = 0
         /\ poll'.code = 200
         /\ poll'.response.nextLink = <<>>
         /\ \E i \in Matching(PollKey) :
              \/ /\ log[i].status = "e-success"
                 /\ poll'.response.status = "success"
                 /\ poll'.response.result = log[i].result
                 /\ poll'.response.error = Absent
              \/ /\ log[i].status = "d-fatal"
                 /\ poll'.response.status = "fatal"
                 /\ poll'.response.error = log[i].error
                 /\ poll'.response.result = Absent]_vars

\* A poll resumed with last_status = success returned success at once.
C2_Witness ==
    /\ poll.pc = "done"
    /\ poll.handler = "shout_status"
    /\ poll.last_status = "success"
    /\ poll.response.status = "success"
    /\ poll.response.result = "HELLO"
    /\ poll.elapsed = 0
    /\ ~HasNextLink

-----------------------------------------------------------------------------
(* C3: a status change during the poll *)

\* The poll has slept at least once, so an earlier read saw no change, and
\* the job's highest status now differs from last_status.
ChangedMidPoll ==
    /\ poll.pc = "polling"
    /\ poll.elapsed > 0
    /\ Matching(PollKey) # {}
    /\ HighestStatus(PollKey) # poll.last_status

\* C3 (as claimed): when a callback appends, during a poll, an entity whose
\* status becomes the job's highest and differs from last_status, the next
\* read returns that status with a nextLink, without further sleep.
C3_ChangeReturnsNextLink ==
    [][PollIter /\ ChangedMidPoll =>
         /\ poll'.pc = "done"
         /\ poll'.elapsed = poll.elapsed
         /\ poll'.response.status = HighestStatus(PollKey)
         /\ poll'.response.nextLink # <<>>]_vars

\* C3 (amended): ... the next read returns that status without further
\* sleep: with a nextLink (HTTP 202) when the new status is new, shouting
\* or error, and as a terminal response without nextLink (HTTP 200) when
\* the new status is success or fatal.
C3_ChangeReturnsPromptly ==
    [][PollIter /\ ChangedMidPoll =>
         /\ poll'.pc = "done"
         /\ poll'.elapsed = poll.elapsed
         /\ poll'.response.status = HighestStatus(PollKey)
         /\ (poll'.response.nextLink # <<>>) =
                (HighestStatus(PollKey) \notin TerminalNames)
         /\ poll'.code =
                IF HighestStatus(PollKey) \in TerminalNames THEN 200 ELSE 202]_vars

\* A poll that had slept returned a changed status before the budget ended.
C3_Witness ==
    /\ Responded
    /\ poll.elapsed > 0
    /\ poll.elapsed < BudgetMs
    /\ poll.response.status = "shouting"
    /\ poll.last_status = "new"
    /\ HasNextLink

-----------------------------------------------------------------------------
(* C4: no change, no terminal entity *)

\* C4: a poll that returns while the job has no entity, or while the job's
\* highest status equals last_status and is not success or fatal, returns
\* no earlier than 45 seconds after its start, with HTTP 202, a nextLink,
\* no result and the status last_status.
C4_UnchangedWaitsOutBudget ==
    [][PollReturns /\ (\/ Matching(PollKey) = {}
                       \/ /\ HighestStatus(PollKey) = poll.last_status
                          /\ HighestStatus(PollKey) \notin TerminalNames) =>
         /\ poll.elapsed >= BudgetMs
         /\ poll'.code = 202
         /\ poll'.response.nextLink # <<>>
         /\ poll'.response.result = Absent
         /\ poll'.response.status = poll.last_status]_vars

\* A poll of a job whose status stayed at last_status timed out.
C4_Witness ==
    /\ Responded
    /\ poll.elapsed >= BudgetMs
    /\ poll.entities # <<>>
    /\ poll.response.status = poll.last_status
    /\ HasNextLink

-----------------------------------------------------------------------------
(* C5: the authorization of a callback *)

\* The token list of the credential record; empty while there is no record.
TokenList == IF record = <<>> THEN <<>> ELSE record[1].tokens

\* C5: a callback is accepted (HTTP 200) and appends exactly one entity,
\* with the posted job key and status, if and only if its token is in the
\* record's token list when it is checked; otherwise it is rejected with
\* HTTP 403 and the log is unchanged.
C5_AcceptedIffTokenListed ==
    [][\A token \in TokenTokens, status \in TokenStatuses, result \in Results :
         PostShoutStatus(token, "B", "7", status, result) =>
            IF \E i \in 1..Len(TokenList) : TokenList[i] = token
            THEN /\ callback' = 200
                 /\ Len(log') = Len(log) + 1
                 /\ SubSeq(log', 1, Len(log)) = log
                 /\ log'[Len(log')].combined_shout_id = "B-7"
                 /\ log'[Len(log')].status = STATUS_MAP(status)
            ELSE /\ callback' = 403
                 /\ log' = log]_vars

-----------------------------------------------------------------------------
(* C6, C7: rotation *)

\* The tokens of the record, as a set.
CurrentTokens == {TokenList[i] : i \in 1..Len(TokenList)}

\* C6: the k-th token committed to the record (the first by init, the
\* others by rotate_token) is in get_tokens() exactly while fewer than
\* max_tokens rotations were committed after it: it survives max_tokens - 1
\* rotations and is gone after max_tokens.
C6_TokenLivesMaxTokensRotations ==
    record # <<>> =>
        \A k \in 1..Len(issued) :
            (issued[k] \in CurrentTokens) = (Len(issued) - k < max_tokens)

\* The first token has been rotated out by exactly max_tokens rotations,
\* and the token that was newest before the last rotation is still listed.
C6_Witness ==
    /\ record # <<>>
    /\ Len(issued) = max_tokens + 1
    /\ issued[1] \notin CurrentTokens
    /\ issued[max_tokens] \in CurrentTokens

\* The newest max_tokens of the committed tokens, newest first: what the
\* committed calls produce when run one after the other.
NewestFirst(tokens) ==
    [i \in 1..Min(max_tokens, Len(tokens)) |-> tokens[Len(tokens) + 1 - i]]

\* C7: under every interleaving of init and rotate_token requests the token
\* list is the one their committed calls produce in commit order, so no
\* committed token is overwritten by a concurrent writer, and no list
\* longer than max_tokens is ever stored.
C7_RotationsSerialize ==
    record # <<>> =>
        /\ get_tokens = NewestFirst(issued)
        /\ Len(get_tokens) <= max_tokens

\* Two rotations overlapped: the one that began first committed last, and
\* both tokens are in the list.
C7_Witness ==
    /\ record # <<>>
    /\ \E p, q \in Procs :
         /\ txn[p].op = "rotate" /\ txn[p].outcome = "ok"
         /\ txn[q].op = "rotate" /\ txn[q].outcome = "ok"
         /\ txn[q].token < txn[p].token
         /\ Len(get_tokens) >= 2
         /\ get_tokens[1] = txn[q].token
         /\ get_tokens[2] = txn[p].token

-----------------------------------------------------------------------------
(* C8: init *)

\* C8: a committing Rotoken.init(first_token) creates the record with the
\* list [first_token] when there is no record and leaves the token list as
\* it is when there is one, also after rotations and when another init ran
\* concurrently.
C8_InitCreatesOnce ==
    [][\A p \in Procs :
         TxnCommit(p) /\ txn[p].op = "init" =>
            /\ record' # <<>>
            /\ record'[1].tokens =
                   IF record = <<>> THEN <<txn[p].token>> ELSE record[1].tokens]_vars

\* Two init requests with different tokens both returned and the record
\* holds exactly one token, that of one of them.
C8_Witness ==
    /\ record # <<>>
    /\ \E p, q \in Procs :
         /\ p # q
         /\ txn[p].op = "init" /\ txn[p].outcome = "ok"
         /\ txn[q].op = "init" /\ txn[q].outcome = "ok"
         /\ txn[p].token # txn[q].token
         /\ get_tokens = <<txn[p].token>>

-----------------------------------------------------------------------------
(* C9, C10: the members of a poll response *)

\* C9 (as claimed): a poll response holds exactly one of result, error and
\* nextLink: result when the status is success, error when it is fatal or
\* a surfaced error, nextLink when it is not terminal or timed out.  (A
\* null error member is counted as no member here.)
C9_ExactlyOneMember ==
    Responded =>
        /\ Cardinality({m \in {"result", "error", "nextLink"} :
               \/ m = "result" /\ HasResult
               \/ m = "error" /\ HasErrorMessage
               \/ m = "nextLink" /\ HasNextLink}) = 1
        /\ HasResult = (poll.response.status = "success")

\* C9 (amended): a poll response is exactly one of: a success response
\* (HTTP 200) with result and neither error nor nextLink; a fatal response
\* (HTTP 200) with error and neither result nor nextLink; a continuation
\* (HTTP 202) with nextLink and no result, which also carries an error
\* member exactly when it reports a status other than last_status.
C9_ResponseShapes ==
    Responded =>
        \/ /\ poll.code = 200 /\ poll.response.status = "success"
           /\ HasResult /\ ~HasError /\ ~HasNextLink
        \/ /\ poll.code = 200 /\ poll.response.status = "fatal"
           /\ HasError /\ ~HasResult /\ ~HasNextLink
        \/ /\ poll.code = 202 /\ HasNextLink /\ ~HasResult
           /\ HasError = (poll.response.status # poll.last_status)

\* A response that surfaces an error message holds error and nextLink.
C9_Witness ==
    /\ Responded
    /\ poll.response.status = "error"
    /\ poll.response.error = "HELLO"
    /\ HasNextLink

\* C10 (as claimed): the error member is present in a poll response if and
\* only if the status of the response is error or fatal, also when the
\* response is returned on budget timeout.  (A null error member is counted
\* as no member here, and only responses that follow a read of an entity
\* with an error message are looked at.)
C10_ErrorIffErrorStatus ==
    Responded /\ poll.entities # <<>> /\ poll.entities[1].error # None =>
        (HasErrorMessage = (poll.response.status \in {"error", "fatal"}))

\* C10 (amended): the error member is present in a poll response if and
\* only if the response is terminal with status fatal or is a continuation
\* whose status differs from last_status; it then holds the error of the
\* selected entity, which is None for the statuses new and shouting.  A
\* continuation returned on budget timeout holds no error member, also when
\* the unchanged status is error.
C10_ErrorIffFatalOrChanged ==
    Responded =>
        /\ HasError = \/ poll.code = 200 /\ poll.response.status = "fatal"
                      \/ poll.code = 202 /\
                             poll.response.status # poll.last_status
        /\ HasError => /\ poll.entities # <<>>
                       /\ poll.response.error = poll.entities[1].error
        /\ HasError /\ poll.response.status \in {"new", "shouting"} =>
               poll.response.error = None

\* A poll timed out on the unchanged status error, without an error member.
C10_Witness ==
    /\ Responded
    /\ poll.elapsed >= BudgetMs
    /\ poll.last_status = "error"
    /\ poll.response.status = "error"
    /\ poll.entities # <<>>
    /\ ~HasError
    /\ HasNextLink

-----------------------------------------------------------------------------
(* C11: the HTTP status, the nextLink and the status of a response *)

\* The response reports a terminal status and the log holds an event of the
\* job with that status.
TerminalResponse ==
    /\ ~HasNextLink
    /\ poll.code = 200
    /\ poll.response.status \in TerminalNames
    /\ \E i \in Matching(PollKey) :
           status_name(log[i].status) = poll.response.status

\* C11 (as claimed): every poll response either has a nextLink and HTTP 202
\* and a status that is neither success nor fatal, or has no nextLink and
\* HTTP 200 and a status success or fatal that an event of the job holds.
C11_ContinuationNeverTerminal ==
    Responded =>
        \/ /\ HasNextLink
           /\ poll.code = 202
           /\ poll.response.status \notin TerminalNames
        \/ TerminalResponse

\* C11 (amended): every poll response either has a nextLink and HTTP 202, or
\* has no nextLink and HTTP 200 and a status success or fatal that an event
\* of the job holds; a response with nextLink reports success or fatal only
\* when the poll was invoked with that status as last_status and its last
\* read found no event of the job, so that the response echoes last_status.
C11_ContinuationTerminalOnlyEchoed ==
    Responded =>
        \/ /\ HasNextLink
           /\ poll.code = 202
           /\ poll.response.status \in TerminalNames =>
                  /\ poll.response.status = poll.last_status
                  /\ poll.entities = <<>>
        \/ TerminalResponse

\* A poll invoked with a terminal last_status for a job without events ran
\* out of budget and answered 202 with that status.
C11_Witness ==
    /\ Responded
    /\ HasNextLink
    /\ poll.code = 202
    /\ poll.response.status \in TerminalNames
    /\ BudgetExhausted(poll.elapsed)

-----------------------------------------------------------------------------
(* C12: the nextLink token and the poll it resumes *)

\* The token of the response's nextLink, as /shout_status reads it.
NextLinkToken(p) == url_decode(p.response.nextLink[1].token)

\* C12: the token of a response's nextLink holds exactly browserId, shoutId
\* and status, equal to the ids the poll was invoked with and to the status
\* member of the same response; and a /shout_status request with that token
\* starts poll_shout_status on those three values with fresh locals, whatever
\* the earlier poll left behind.
C12_TokenResumesPoll ==
    [][/\ (PollReturns /\ poll'.response.nextLink # <<>>) =>
              /\ DOMAIN NextLinkToken(poll') =
                     {"browserId", "shoutId", "status"}
              /\ NextLinkToken(poll')["browserId"] = poll.browser_id
              /\ NextLinkToken(poll')["shoutId"] = poll.shout_id
              /\ NextLinkToken(poll')["status"] = poll'.response.status
       /\ (/\ Responded
           /\ HasNextLink
           /\ ShoutStatus(poll.response.nextLink[1].token)) =>
              LET token == NextLinkToken(poll)
              IN  /\ poll' = StartPoll("shout_status", poll.browser_id,
                                       poll.shout_id, poll.response.status)
                  /\ poll' = StartPoll("shout_status", token["browserId"],
                                       token["shoutId"], token["status"])]_vars

\* A poll resumed from the token of a nextLink that reported a change has
\* returned a second continuation.
C12_Witness ==
    /\ Responded
    /\ HasNextLink
    /\ poll.handler = "shout_status"
    /\ poll.last_status = "shouting"
    /\ NextLinkToken(poll)["status"] = "error"
    /\ NextLinkToken(poll)["shoutId"] = poll.shout_id

-----------------------------------------------------------------------------
(* C13: the client that follows every nextLink reaches the outcome *)

\* The response that ends the client's loop: no nextLink, and either success
\* with the result of a success event a worker posted, or fatal.
FinalResponse ==
    /\ Responded
    /\ ~HasNextLink
    /\ \/ /\ poll.response.status = "success"
          /\ \E i \in Matching(PollKey) :
                 /\ status_name(log[i].status) = "success"
                 /\ log[i].result = poll.response.result
       \/ poll.response.status = "fatal"

\* C13: once the shout of a client is polling, and the client re-invokes the
\* poll with every nextLink token it receives, and a worker eventually posts
\* success or fatal for the job with a valid token, the client eventually
\* receives a response without nextLink whose status is success with the
\* worker-posted result, or fatal.
C13_ClientReachesOutcome == (poll.pc = "polling") ~> FinalResponse

\* The outcome arrived on a poll resumed from a nextLink, with the result
\* the worker posted.
C13_Witness ==
    /\ FinalResponse
    /\ poll.handler = "shout_status"
    /\ poll.response.status = "success"
    /\ poll.response.result = "JEFF"

-----------------------------------------------------------------------------
(* C14: a read of the store that fails *)

\* C14 (as claimed): a failed read during an iteration of the poll counts
\* as no change, so the poll never fails: whenever a running poll ends, it
\* ends with a terminal response (200) or a continuation (202).
C14_PollNeverFails ==
    [][(poll.pc = "polling" /\ poll'.pc = "done") =>
           poll'.code \in {200, 202}]_vars

-----------------------------------------------------------------------------
(* C15: the response to a submission that was logged *)

\* C15 (as claimed): every /shout that wrote its new event to the log goes
\* on to poll_shout_status, whose response is a terminal outcome or a
\* continuation; it never ends as an unstructured failure.
C15_LoggedShoutPolls ==
    [][((\E b \in PollBrowsers, s \in PollShouts : Shout(b, s))
            /\ log' # log) =>
           poll'.pc = "polling"]_vars

-----------------------------------------------------------------------------
(* C16: the time one invocation of the poll takes *)

\* C16 (as claimed): the sleeps of one invocation of poll_shout_status never
\* add up to more than the 45 second budget.
C16_SleepsWithinBudget == poll.elapsed <= BudgetMs

-----------------------------------------------------------------------------
(* C17: the backoff schedule *)

RECURSIVE Pow2(_)
Pow2(n) == IF n = 0 THEN 1 ELSE 2 * Pow2(n - 1)

\* min(5000, 100 * 2^(k-1)), in milliseconds
KthSleep(k) == Min(MaxSleepMs, FirstSleepMs * Pow2(k - 1))

\* The time slept before the k-th sleep.
RECURSIVE SleptBefore(_)
SleptBefore(k) == IF k = 1 THEN 0 ELSE SleptBefore(k - 1) + KthSleep(k - 1)

\* No invocation sleeps more often than this.
SleepsAtMost == 2 * (BudgetMs \div MaxSleepMs)

\* C17: every invocation of poll_shout_status starts with nothing slept and
\* a first sleep of 100 ms, and its k-th sleep lasts min(5000, 100 * 2^(k-1))
\* ms: each sleep is double the one before, none is longer than 5 seconds.
C17_BackoffSchedule ==
    [][/\ (poll.pc # "polling" /\ poll'.pc = "polling") =>
              /\ poll'.elapsed = 0
              /\ poll'.sleep_seconds = KthSleep(1)
       /\ (poll.pc = "polling" /\ poll'.pc = "polling" /\ poll' # poll) =>
              \E k \in 1..SleepsAtMost :
                  /\ poll.elapsed = SleptBefore(k)
                  /\ poll'.elapsed - poll.elapsed = KthSleep(k)
                  /\ poll'.sleep_seconds = KthSleep(k + 1)
                  /\ poll'.sleep_seconds <= MaxSleepMs]_vars

\* A resumed poll has slept seven times and its backoff is at the ceiling.
C17_Witness ==
    /\ poll.pc = "polling"
    /\ poll.handler = "shout_status"
    /\ poll.elapsed = SleptBefore(8)
    /\ poll.elapsed = 11300
    /\ poll.sleep_seconds = MaxSleepMs

-----------------------------------------------------------------------------
(* C18: the error and result fields of an event *)

\* C18 (as claimed): an event's error is populated only if its status is
\* error or fatal, and its result only if its status is success.
C18_PayloadMatchesStatus ==
    \A i \in 1..Len(log) :
        /\ log[i].error # None =>
               status_name(log[i].status) \in {"error", "fatal"}
        /\ log[i].result # None => status_name(log[i].status) = "success"

-----------------------------------------------------------------------------
(* C19: what an operation may do to the events of the log *)

\* The events of a log, as a set (no two have the same timestamp).
Events(entities) == {entities[i] : i \in 1..Len(entities)}

\* C19: an event once written is never changed, and only purge removes one:
\* a step of shout or post_shout_status adds one event and keeps the others,
\* a step of poll_shout_status, rotate_token or init leaves the log as it
\* is, and a step of purge adds nothing and removes only an event whose
\* timestamp is more than one day before the start of that purge, whatever
\* was appended meanwhile.
C19_LogFrame ==
    [][/\ \A event \in Events(log) \ Events(log') :
              /\ PurgeDelete
              /\ event.timestamp < purge.start - OneDay
       /\ Cardinality(Events(log') \ Events(log)) <= 1
       /\ \A event \in Events(log') \ Events(log) :
              /\ Appends
              /\ event.timestamp = clock
              /\ Len(log') = Len(log) + 1
       /\ Reads => log' = log]_vars

\* A purge has deleted an old event and kept the event that was appended
\* while it ran.
C19_Witness ==
    /\ purge.pc = "done"
    /\ purge.deleted # {}
    /\ \E i \in 1..Len(log) : log[i].timestamp >= purge.start

-----------------------------------------------------------------------------
(* C20: the token of a dispatched job across rotations *)

\* The rotations completed since a token was issued: the tokens the record
\* received after it.
RotationsSince(token) ==
    Len(issued) - (CHOOSE i \in 1..Len(issued) : issued[i] = token)

\* C20: the postStatusToken of a message shout publishes is the newest token
\* of the record at that moment; the callback of a worker that presents it
\* is accepted while at most max_tokens - 1 rotations have completed since
\* the dispatch, and is rejected once max_tokens rotations have completed.
C20_DispatchTokenOutlivesRotations ==
    [][/\ \A message \in published' \ published :
              /\ message.postStatusToken = get_tokens[1]
              /\ message.postStatusToken = issued[Len(issued)]
       /\ \A message \in published :
              \A result \in Results :
                  PostShoutStatus(message.postStatusToken, message.browserId,
                                  message.shoutId, "success", result) =>
                      /\ RotationsSince(message.postStatusToken)
                             <= max_tokens - 1 => callback' = 200
                      /\ RotationsSince(message.postStatusToken)
                             >= max_tokens => callback' = 403]_vars

\* max_tokens rotations after a dispatch the worker's callback was refused.
C20_Witness ==
    /\ callback = 403
    /\ \E message \in published :
           RotationsSince(message.postStatusToken) = max_tokens

-----------------------------------------------------------------------------
(* C21: the terminal outcome of a job over successive polls *)

\* The terminal responses polls have returned for the job of the poll at
\* hand (its own response among them, once it has returned one).
AnsweredBefore ==
    {answer \in http.answered :
        /\ answer.browserId = poll.browser_id
        /\ answer.shoutId = poll.shout_id}

\* C21 (as claimed): once a poll has returned a terminal response for a job,
\* every later poll of the job returns a terminal response with the same
\* status and the same result or error, whatever callbacks were accepted in
\* between (no purge runs).
C21_OutcomeNeverChanges ==
    \A answer \in AnsweredBefore :
        Responded =>
            /\ ~HasNextLink
            /\ poll.code = 200
            /\ poll.response.status = answer.status
            /\ poll.response.result = answer.result
            /\ poll.response.error = answer.error

\* C21 (amended): once a poll has returned a terminal response for a job,
\* every later poll of the job returns a terminal response (no purge runs)
\* whose status has at least the priority of the earlier one: after success
\* it is success, after fatal it is fatal or, once a success event was
\* accepted, success; its result or error is that of an event of the job
\* with the returned status.
C21_OutcomeStaysTerminal ==
    \A answer \in AnsweredBefore :
        Responded =>
            /\ ~HasNextLink
            /\ poll.code = 200
            /\ poll.response.status \in TerminalNames
            /\ Rank(STATUS_MAP(poll.response.status))
                   >= Rank(STATUS_MAP(answer.status))
            /\ \E i \in Matching(PollKey) :
                   /\ status_name(log[i].status) = poll.response.status
                   /\ poll.response.status = "success" =>
                          poll.response.result = log[i].result
                   /\ poll.response.status = "fatal" =>
                          poll.response.error = log[i].error

\* A job that a poll answered with fatal is answered with success by a
\* later poll.
C21_Witness ==
    /\ Responded
    /\ poll.response.status = "success"
    /\ \E answer \in AnsweredBefore : answer.status = "fatal"

-----------------------------------------------------------------------------
(* C22: jobs are told apart by their key *)

\* The pair of ids a request was made for.
Pair(request) == <<request.browserId, request.shoutId>>

\* C22 (as claimed): the pairs (browser_id, shout_id) for which events were
\* appended have distinct keys when they are distinct, and the entity a
\* read of a poll selects was appended for the pair of that poll.
C22_JobsIsolatedByKey ==
    /\ \A one, other \in http.appended :
           Pair(one) # Pair(other) =>
               combine_ids(one.browserId, one.shoutId)
                   # combine_ids(other.browserId, other.shoutId)
    /\ poll.entities # <<>> =>
           \A request \in http.appended :
               request.timestamp = poll.entities[1].timestamp =>
                   Pair(request) = <<poll.browser_id, poll.shout_id>>

=============================================================================
